---- MODULE Spec2Model ----
(***************************************************************************)
(* Communication-cards store: the reducer, the debounced persistence       *)
(* scheduler and the data provider.                                        *)
(*                                                                         *)
(* The repository holds two builds of the store:                           *)
(*   "A"  src/src/contexts/AppDataContext.tsx   (function reducer)         *)
(*   "B"  src/unnamed/part_006                  (function appReducer)      *)
(* The variable `variant` fixes, for a whole behaviour, which build runs.  *)
(*                                                                         *)
(* Timestamps are ISO-8601 strings in the code (new Date().toISOString()); *)
(* they are modelled by the millisecond count they denote, whose order is  *)
(* the lexicographic order of the strings.  The optional pass-through      *)
(* fields of a card or group (text, imageUri, color, category) are copied  *)
(* by the same object spreads as title/name and are left out.              *)
(***************************************************************************)
EXTENDS Integers, Sequences, FiniteSets, TLC

VARIABLES
    variant,          \* "A" or "B": which build of the provider is running
    data,             \* useReducer state (AppData)
    now,              \* wall clock, ms
    prev,             \* history: useReducer state before the last reducer step
    last,             \* history: the last action the reducer processed, and its clock
    loading,          \* useState(true)
    loadError,        \* useState(false) / useState(null)
    mounted,          \* `let mounted = true` of the load effect
    isInitialLoadRef, \* useRef(true)   (build B)
    hasLoadedRef,     \* useRef(false)  (build B)
    loadPc,           \* position of the async load: "pending" or "done"
    timer,            \* the setTimeout of useDebouncedEffect: pending or not, due time, closure
    inflight,         \* AsyncStorage.setItem calls that have not completed
    storage,          \* the blob stored under STORAGE_KEY
    saveLog,          \* history: arguments of the saveAppData calls, in order
    savesAtLoad,      \* history: Len(saveLog) when the initial LOAD_DATA was dispatched, or -1
    burstAt,          \* history: Len(saveLog) at the first user change after the load, or -1
    burstN,           \* history: number of user changes after the load
    burstOK,          \* history: each of them came less than the delay after the one before
    lastChangeAt,     \* history: clock of the last state change
    nDispatch,        \* history: number of user dispatches so far
    loadLog,          \* history: what loadAppData() read and what it settled with
    failedWrites,     \* history: number of AsyncStorage.setItem calls that rejected
    saveRejected      \* history: a promise returned by saveAppData rejected

pvars == <<loading, loadError, mounted, isInitialLoadRef, hasLoadedRef, loadPc,
           timer, inflight, storage, saveLog, savesAtLoad, burstAt, burstN, burstOK,
           lastChangeAt, nDispatch, loadLog, failedWrites, saveRejected>>
vars == <<variant, data, now, prev, last, loading, loadError, mounted,
          isInitialLoadRef, hasLoadedRef, loadPc, timer, inflight, storage,
          saveLog, savesAtLoad, burstAt, burstN, burstOK, lastChangeAt, nDispatch,
          loadLog, failedWrites, saveRejected>>

----------------------------------------------------------------------------
(* Bounds and program constants *)

SAVE_DEBOUNCE_DELAY_MS == 300

\* clock granularity: ticks per debounce delay
TicksPerDelay == 2
TickMs == SAVE_DEBOUNCE_DELAY_MS \div TicksPerDelay

\* the reducer specification lets the clock advance this many ticks
MaxClock == 1
\* the provider specification lets the clock advance this many ticks
MaxTicks == 5
\* longest card list and group list of a starting aggregate, longest imported card list
MaxCards == 2
MaxGroups == 1
MaxImport == 2
\* the provider specification stops after this many user dispatches and this many saves
MaxDispatch == 3
MaxSaves == 2

Variants == {"A", "B"}
CardIds == {"c1", "c2"}
GroupIds == {"g1", "g2"}
\* a payload without id: `incoming.id || uuidv4()` takes the right-hand side
NoId == ""
\* values uuidv4() may return
UuidPool == {"u1", "u2"}
\* a timestamp later than every clock value of a run
FarStamp == (MaxTicks + MaxClock + 1) * TickMs

----------------------------------------------------------------------------
(* Entity model *)

Card(i, t, gs, f, c, u) ==
    [id |-> i, title |-> t, groupIds |-> gs, favorite |-> f, createdAt |-> c, updatedAt |-> u]

Group(i, n, c, u) == [id |-> i, name |-> n, createdAt |-> c, updatedAt |-> u]

AppData(cs, gs) == [cards |-> cs, groups |-> gs]

initialState == AppData(<<>>, <<>>)

Ids(list) == [i \in DOMAIN list |-> list[i].id]

HasId(list, id) == \E i \in DOMAIN list : list[i].id = id

----------------------------------------------------------------------------
(* Reducer, build A: src/src/contexts/AppDataContext.tsx *)

\* mutant: the map is a plain list, set() always appends
MapSet_AlwaysAppend(m, e) == Append(m, e)

\* Map.prototype.set on a Map kept as the sequence of its values in insertion order
MapSet(m, e) ==
    IF HasId(m, e.id)
    THEN [i \in DOMAIN m |-> IF m[i].id = e.id THEN e ELSE m[i]]
    ELSE Append(m, e)

RECURSIVE MapSetAll(_, _)
\* list.forEach((x) => map.set(x.id, x))
MapSetAll(m, list) ==
    IF list = <<>> THEN m ELSE MapSetAll(MapSet(m, Head(list)), Tail(list))

\* merge branch of IMPORT_DATA: Array.from(map.values()) after both forEach loops
MergeByMap(existing, incoming) == MapSetAll(MapSetAll(<<>>, existing), incoming)

\* mutant: an update of an unknown id inserts it (upsert)
UpdateEntityA_Upsert(list, updated, t) ==
    IF HasId(list, updated.id)
    THEN [i \in DOMAIN list |->
            IF list[i].id = updated.id THEN [updated EXCEPT !.updatedAt = t] ELSE list[i]]
    ELSE Append(list, [updated EXCEPT !.updatedAt = t])

UpdateEntityA(list, updated, t) ==
    [i \in DOMAIN list |->
        IF list[i].id = updated.id THEN [updated EXCEPT !.updatedAt = t] ELSE list[i]]

\* mutant: the cascade into Card.groupIds is forgotten
RemoveGroupIdA_NoCascade(cards, id) == cards

RemoveGroupIdA(cards, id) ==
    [i \in DOMAIN cards |->
        [cards[i] EXCEPT !.groupIds = SelectSeq(cards[i].groupIds, LAMBDA gid : gid # id)]]

\* list.filter((x) => x.id !== id)
RemoveByIdA(list, id) == SelectSeq(list, LAMBDA x : x.id # id)

ImportMergeA(state, appData) ==
    AppData(MergeByMap(state.cards, appData.cards), MergeByMap(state.groups, appData.groups))

ImportReplaceA(state, appData) == AppData(appData.cards, appData.groups)

\* uuid is the value uuidv4() returns in this invocation
reducer(state, action, t, uuid) ==
    CASE action.type = "LOAD_DATA" -> action.payload
      [] action.type = "ADD_CARD" ->
            LET incoming == action.payload
                id == IF incoming.id # NoId THEN incoming.id ELSE uuid
                card == [incoming EXCEPT !.id = id, !.createdAt = t, !.updatedAt = t]
            IN  [state EXCEPT !.cards = Append(state.cards, card)]
      [] action.type = "UPDATE_CARD" ->
            [state EXCEPT !.cards = UpdateEntityA(state.cards, action.payload, t)]
      [] action.type = "DELETE_CARD" ->
            [state EXCEPT !.cards = RemoveByIdA(state.cards, action.payload)]
      [] action.type = "ADD_GROUP" ->
            LET incoming == action.payload
                id == IF incoming.id # NoId THEN incoming.id ELSE uuid
                group == [incoming EXCEPT !.id = id, !.createdAt = t, !.updatedAt = t]
            IN  [state EXCEPT !.groups = Append(state.groups, group)]
      [] action.type = "UPDATE_GROUP" ->
            [state EXCEPT !.groups = UpdateEntityA(state.groups, action.payload, t)]
      [] action.type = "DELETE_GROUP" ->
            AppData(RemoveGroupIdA(state.cards, action.payload),
                    RemoveByIdA(state.groups, action.payload))
      [] action.type = "IMPORT_DATA" ->
            IF ~action.payload.merge
            THEN ImportReplaceA(state, action.payload.data)
            ELSE ImportMergeA(state, action.payload.data)
      [] action.type = "RESET_DATA" -> AppData(<<>>, <<>>)
      [] OTHER -> state

----------------------------------------------------------------------------
(* Reducer, build B: src/unnamed/part_006 *)

\* mutant: an update of an unknown id appends the payload
UpdateEntityB_Append(list, payload, t) ==
    IF HasId(list, payload.id)
    THEN [i \in DOMAIN list |->
            IF list[i].id = payload.id
            THEN [payload EXCEPT !.createdAt = list[i].createdAt, !.updatedAt = t]
            ELSE list[i]]
    ELSE Append(list, [payload EXCEPT !.createdAt = t, !.updatedAt = t])

\* mutant: the payload's own updatedAt is kept
UpdateEntityB_NoStamp(list, payload, t) ==
    [i \in DOMAIN list |->
        IF list[i].id = payload.id
        THEN [payload EXCEPT !.createdAt = list[i].createdAt]
        ELSE list[i]]

UpdateEntityB(list, payload, t) ==
    [i \in DOMAIN list |->
        IF list[i].id = payload.id
        THEN [payload EXCEPT !.createdAt = list[i].createdAt, !.updatedAt = t]
        ELSE list[i]]

Includes(list, x) == \E i \in DOMAIN list : list[i] = x

\* mutant: the affected cards are stamped but keep the id in groupIds
RemoveGroupIdB_StampOnly(cards, groupId, t) ==
    [i \in DOMAIN cards |->
        [cards[i] EXCEPT
            !.updatedAt = IF Includes(cards[i].groupIds, groupId) THEN t ELSE cards[i].updatedAt]]

RemoveGroupIdB(cards, groupId, t) ==
    [i \in DOMAIN cards |->
        [cards[i] EXCEPT
            !.groupIds = SelectSeq(cards[i].groupIds, LAMBDA id : id # groupId),
            !.updatedAt = IF Includes(cards[i].groupIds, groupId) THEN t ELSE cards[i].updatedAt]]

\* mutant: the first entry with the id is cut out together with all that follow it
RemoveByIdB_Truncate(list, id) ==
    IF HasId(list, id)
    THEN SubSeq(list, 1, (CHOOSE i \in DOMAIN list :
                             list[i].id = id /\ \A j \in 1..(i - 1) : list[j].id # id) - 1)
    ELSE list

\* list.filter((x) => x.id !== id)
RemoveByIdB(list, id) == SelectSeq(list, LAMBDA x : x.id # id)

\* mutant: the new entries are put in front of the existing ones
AppendNew_InFront(existing, incoming) ==
    SelectSeq(incoming, LAMBDA e : ~HasId(existing, e.id)) \o existing

\* data.cards.filter((c) => !existingCardIds.has(c.id)) appended to the existing list
AppendNew(existing, incoming) ==
    existing \o SelectSeq(incoming, LAMBDA e : ~HasId(existing, e.id))

ImportMergeB(state, d) ==
    AppData(AppendNew(state.cards, d.cards), AppendNew(state.groups, d.groups))

\* mutant: replace keeps the existing entries in front of the imported ones
ImportReplaceB_Keep(state, d) == AppData(state.cards \o d.cards, state.groups \o d.groups)

ImportReplaceB(state, d) == d

\* mutant: a reset clears the cards only
ResetDataB_KeepGroups(state) == AppData(<<>>, state.groups)

\* case 'RESET_DATA': return { cards: [], groups: [] }
ResetDataB(state) == AppData(<<>>, <<>>)

appReducer(state, action, t) ==
    CASE action.type = "LOAD_DATA" -> action.payload
      [] action.type = "ADD_CARD" ->
            [state EXCEPT !.cards =
                Append(state.cards, [action.payload EXCEPT !.createdAt = t, !.updatedAt = t])]
      [] action.type = "UPDATE_CARD" ->
            [state EXCEPT !.cards = UpdateEntityB(state.cards, action.payload, t)]
      [] action.type = "DELETE_CARD" ->
            [state EXCEPT !.cards = RemoveByIdB(state.cards, action.payload)]
      [] action.type = "ADD_GROUP" ->
            [state EXCEPT !.groups =
                Append(state.groups, [action.payload EXCEPT !.createdAt = t, !.updatedAt = t])]
      [] action.type = "UPDATE_GROUP" ->
            [state EXCEPT !.groups = UpdateEntityB(state.groups, action.payload, t)]
      [] action.type = "DELETE_GROUP" ->
            [state EXCEPT
                !.cards = RemoveGroupIdB(state.cards, action.payload, t),
                !.groups = RemoveByIdB(state.groups, action.payload)]
      [] action.type = "IMPORT_DATA" ->
            IF ~action.payload.merge
            THEN ImportReplaceB(state, action.payload.data)
            ELSE ImportMergeB(state, action.payload.data)
      [] action.type = "RESET_DATA" -> ResetDataB(state)
      [] OTHER -> state

\* the reducer of the running build
Reduce(v, state, action, t, uuid) ==
    IF v = "A" THEN reducer(state, action, t, uuid) ELSE appReducer(state, action, t)

----------------------------------------------------------------------------
(* Inputs: bounded pools of cards, groups and aggregates *)

CardPool ==
    { Card("c1", "A", <<"g1">>, FALSE, 0, 0),
      Card("c2", "A", <<"g2", "g1">>, TRUE, 0, TickMs),
      Card("c1", "B", <<>>, FALSE, TickMs, FarStamp) }

GroupPool ==
    { Group("g1", "Food", 0, 0),
      Group("g2", "Drink", TickMs, FarStamp) }

RECURSIVE SeqsUpTo(_, _)
\* the sequences over S of length at most n
SeqsUpTo(S, n) ==
    IF n = 0 THEN {<<>>}
    ELSE LET shorter == SeqsUpTo(S, n - 1)
         IN  shorter \cup {Append(q, x) : q \in shorter, x \in S}

\* well-formed aggregates: a cards array and a groups array
Aggregates ==
    {AppData(cs, gs) : cs \in SeqsUpTo(CardPool, MaxCards), gs \in SeqsUpTo(GroupPool, MaxGroups)}

ImportPayloads ==
    {AppData(cs, gs) : cs \in SeqsUpTo(CardPool, MaxImport), gs \in SeqsUpTo(GroupPool, 1)}

AddCardPayloads == CardPool \cup {Card(NoId, "A", <<"g1">>, FALSE, 0, 0)}
AddGroupPayloads == GroupPool \cup {Group(NoId, "Food", 0, 0)}

NoAction == [type |-> "NONE", step |-> 0]

\* no timeout pending (after it ran, or after clearTimeout)
NoTimer == [set |-> FALSE]

\* AsyncStorage.getItem(STORAGE_KEY) resolves to null
NoBlob == [kind |-> "absent"]

\* loadAppData() has not settled
NoLoad == [settled |-> FALSE]

UsedIds(state) ==
    {state.cards[i].id : i \in DOMAIN state.cards} \cup {state.groups[i].id : i \in DOMAIN state.groups}

----------------------------------------------------------------------------
(* One reducer invocation: dispatch(action) of useReducer *)

\* useReducer: state := reducer(state, action); `now` is read once per invocation
Apply(action) ==
    \E uuid \in UuidPool \ UsedIds(data) :
        /\ data' = Reduce(variant, data, action, now, uuid)
        /\ prev' = data
        /\ last' = [type |-> action.type, payload |-> action.payload, at |-> now,
                    step |-> last.step + 1]
        /\ UNCHANGED <<variant, now>>

Action(type, payload) == [type |-> type, payload |-> payload]

----------------------------------------------------------------------------
(* JSON text and parsed values, as far as the shape checks look at them *)

\* parsed.cards / parsed.groups: undefined, a value that is no array, or an array
NoField == [t |-> "undefined", v |-> <<>>]
StrField == [t |-> "string", v |-> <<>>]
ArrField(list) == [t |-> "array", v |-> list]

\* what JSON.parse may return: null, a number, an array, or an object
JNull == [t |-> "null", cards |-> NoField, groups |-> NoField]
JNumber == [t |-> "number", cards |-> NoField, groups |-> NoField]
JArray == [t |-> "array", cards |-> NoField, groups |-> NoField]
JObject(cardsField, groupsField) == [t |-> "object", cards |-> cardsField, groups |-> groupsField]

\* typeof x: null and arrays are objects too
TypeOf(j) == IF j.t \in {"null", "array", "object"} THEN "object" ELSE j.t
\* !x for a parsed value (the number stands for a non-zero one)
Falsy(j) == j.t = "null"
\* Array.isArray(x)
IsArray(field) == field.t = "array"

\* texts: empty or blank, not JSON, or the JSON text of a value
BlankText == [kind |-> "text", blank |-> TRUE, parses |-> FALSE, value |-> JNull]
Garbage == [kind |-> "text", blank |-> FALSE, parses |-> FALSE, value |-> JNull]
JsonText(j) == [kind |-> "text", blank |-> FALSE, parses |-> TRUE, value |-> j]

\* JSON.parse(text): throws a SyntaxError, or returns the value
JsonParse(text) == [threw |-> ~text.parses, value |-> text.value]

\* `parsed as AppData`: the cards and groups of a parsed object
AsAppData(j) == AppData(j.cards.v, j.groups.v)

----------------------------------------------------------------------------
(* Import of pasted text: SettingsScreen of both builds.  The arrays of the   *)
(* texts hold well-typed cards and groups, which pass the per-entry checks of *)
(* build B's validateAppData.                                                 *)

\* the outcome of parsing and checking the import text
Accepted(d) == [ok |-> TRUE, data |-> d]
Refused == [ok |-> FALSE, data |-> AppData(<<>>, <<>>)]

\* build A, handleImport up to the confirmation: JSON.parse and the shape check run
\* inside try; a SyntaxError and the thrown 'Invalid shape' end in the catch block
ParseImportA(text) ==
    IF JsonParse(text).threw THEN Refused
    ELSE LET parsed == JsonParse(text).value
         IN  IF Falsy(parsed) \/ TypeOf(parsed) # "object"
                \/ ~IsArray(parsed.cards) \/ ~IsArray(parsed.groups)
             THEN Refused
             ELSE Accepted(AsAppData(parsed))

\* mutant: the groups array is not checked
validateAppData_CardsOnly(j) ==
    /\ ~(TypeOf(j) # "object" \/ j.t = "null")
    /\ IsArray(j.cards)

\* build B, validateAppData
validateAppData(j) ==
    /\ ~(TypeOf(j) # "object" \/ j.t = "null")
    /\ ~(~IsArray(j.cards) \/ ~IsArray(j.groups))

\* build B, parseImportData
parseImportData(text) ==
    IF text.blank THEN Refused
    ELSE IF JsonParse(text).threw THEN Refused
    ELSE IF ~validateAppData(JsonParse(text).value) THEN Refused
    ELSE Accepted(AsAppData(JsonParse(text).value))

ParseImport(v, text) == IF v = "A" THEN ParseImportA(text) ELSE parseImportData(text)

\* texts the user may paste into the import field
ImportTexts ==
    { BlankText,
      Garbage,
      JsonText(JNull),
      JsonText(JNumber),
      JsonText(JArray),
      JsonText(JObject(NoField, ArrField(<<>>))),
      JsonText(JObject(ArrField(<<Card("c2", "A", <<>>, FALSE, 0, 0)>>), NoField)),
      JsonText(JObject(ArrField(<<Card("c2", "A", <<>>, FALSE, 0, 0)>>), StrField)),
      JsonText(JObject(ArrField(<<Card("c1", "B", <<>>, FALSE, 0, 0)>>),
                       ArrField(<<Group("g1", "Food", 0, 0)>>))) }

----------------------------------------------------------------------------
(* Specification of the reducer: LOAD_DATA of any well-formed aggregate of   *)
(* the pools, then one action, then (for an import) the same import again.  *)

InitProviderIdle ==
    /\ loading = FALSE
    /\ loadError = FALSE
    /\ mounted = TRUE
    /\ isInitialLoadRef = FALSE
    /\ hasLoadedRef = TRUE
    /\ loadPc = "done"
    /\ timer = NoTimer
    /\ inflight = <<>>
    /\ storage = NoBlob
    /\ saveLog = <<>>
    /\ savesAtLoad = 0
    /\ burstAt = -1
    /\ burstN = 0
    /\ burstOK = TRUE
    /\ lastChangeAt = 0
    /\ nDispatch = 0
    /\ loadLog = NoLoad
    /\ failedWrites = 0
    /\ saveRejected = FALSE

InitR ==
    /\ variant \in Variants
    /\ data = initialState
    /\ now = 0
    /\ prev = data
    /\ last = NoAction
    /\ InitProviderIdle

\* dispatch({ type: 'LOAD_DATA', payload: loaded })
LoadData ==
    /\ last.step = 0
    /\ \E d \in Aggregates : Apply(Action("LOAD_DATA", d))
    /\ UNCHANGED pvars

ClockAdvance ==
    /\ now + TickMs <= MaxClock * TickMs
    /\ now' = now + TickMs
    /\ UNCHANGED <<variant, data, prev, last>>
    /\ UNCHANGED pvars

AddCard ==
    /\ last.step = 1
    /\ \E c \in AddCardPayloads : Apply(Action("ADD_CARD", c))
    /\ UNCHANGED pvars

UpdateCard ==
    /\ last.step = 1
    /\ \E c \in CardPool : Apply(Action("UPDATE_CARD", c))
    /\ UNCHANGED pvars

DeleteCard ==
    /\ last.step = 1
    /\ \E id \in CardIds : Apply(Action("DELETE_CARD", id))
    /\ UNCHANGED pvars

AddGroup ==
    /\ last.step = 1
    /\ \E g \in AddGroupPayloads : Apply(Action("ADD_GROUP", g))
    /\ UNCHANGED pvars

UpdateGroup ==
    /\ last.step = 1
    /\ \E g \in GroupPool : Apply(Action("UPDATE_GROUP", g))
    /\ UNCHANGED pvars

DeleteGroup ==
    /\ last.step = 1
    /\ \E id \in GroupIds : Apply(Action("DELETE_GROUP", id))
    /\ UNCHANGED pvars

ImportData ==
    /\ last.step = 1
    /\ \E d \in ImportPayloads, merge \in BOOLEAN :
          Apply(Action("IMPORT_DATA", [data |-> d, merge |-> merge]))
    /\ UNCHANGED pvars

\* the same import confirmed a second time (the import text stays in the input)
ImportAgain ==
    /\ last.step = 2
    /\ last.type = "IMPORT_DATA"
    /\ Apply(Action("IMPORT_DATA", last.payload))
    /\ UNCHANGED pvars

\* the user presses Import (Merge) or Import (Replace) and answers the confirmation:
\* IMPORT_DATA is dispatched only for a text that parsed and passed the shape check
HandleImport ==
    /\ last.step = 1
    /\ \E text \in ImportTexts, merge \in BOOLEAN, confirmed \in BOOLEAN :
          LET r == ParseImport(variant, text)
              dispatched == r.ok /\ confirmed
          IN  /\ data' = IF dispatched
                         THEN Reduce(variant, data,
                                     Action("IMPORT_DATA", [data |-> r.data, merge |-> merge]),
                                     now, NoId)
                         ELSE data
              /\ prev' = data
              /\ last' = [type |-> "HANDLE_IMPORT",
                          payload |-> [text |-> text, merge |-> merge, confirmed |-> confirmed,
                                       dispatched |-> dispatched],
                          at |-> now, step |-> last.step + 1]
              /\ UNCHANGED <<variant, now>>
    /\ UNCHANGED pvars

ResetData ==
    /\ last.step = 1
    /\ Apply([type |-> "RESET_DATA", payload |-> NoId])
    /\ UNCHANGED pvars

NextR ==
    \/ ClockAdvance
    \/ LoadData
    \/ AddCard
    \/ UpdateCard
    \/ DeleteCard
    \/ AddGroup
    \/ UpdateGroup
    \/ DeleteGroup
    \/ ImportData
    \/ ImportAgain
    \/ HandleImport
    \/ ResetData

SpecR == InitR /\ [][NextR]_vars

----------------------------------------------------------------------------
(* Properties of the reducer, checked under SpecR *)

IsImport(merge) == last.type = "IMPORT_DATA" /\ last.payload.merge = merge

UniqueIds(list) == \A i, j \in DOMAIN list : list[i].id = list[j].id => i = j

\* every entry of `result` with the id of `incoming` equals `incoming`, and there is one
IncomingWins(result, incoming) ==
    /\ HasId(result, incoming.id)
    /\ \A j \in DOMAIN result : result[j].id = incoming.id => result[j] = incoming

\* entries of `before` with the id `id` keep their createdAt in `after`
CreatedAtKept(before, after, id) ==
    /\ DOMAIN after = DOMAIN before
    /\ \A i \in DOMAIN before :
          before[i].id = id => after[i].createdAt = before[i].createdAt

\* C1: after DELETE_GROUP(g) no group has id g and no card's groupIds contains g.
C1_DeleteGroupIntegrity ==
    last.type = "DELETE_GROUP" =>
        /\ ~HasId(data.groups, last.payload)
        /\ \A i \in DOMAIN data.cards : ~Includes(data.cards[i].groupIds, last.payload)

C1_Witness ==
    /\ last.type = "DELETE_GROUP"
    /\ HasId(prev.groups, last.payload)
    /\ \E i \in DOMAIN prev.cards :
          /\ Includes(prev.cards[i].groupIds, last.payload)
          /\ Len(prev.cards[i].groupIds) > 1

\* C5 (as claimed): after a merge import every incoming card or group whose id was
\* in the state is, in the result, equal to the incoming entry field for field, and
\* every incoming entry with a new id is present.  Payloads with distinct ids.
C5_MergeIncomingWins ==
    (IsImport(TRUE) /\ UniqueIds(last.payload.data.cards) /\ UniqueIds(last.payload.data.groups)) =>
        /\ \A i \in DOMAIN last.payload.data.cards :
              IncomingWins(data.cards, last.payload.data.cards[i])
        /\ \A i \in DOMAIN last.payload.data.groups :
              IncomingWins(data.groups, last.payload.data.groups[i])

\* C6: a merge import dispatched a second time leaves the aggregate as the first left it.
C6_MergeIdempotent ==
    (IsImport(TRUE) /\ last.step = 3) => data = prev

C6_Witness ==
    /\ IsImport(TRUE)
    /\ last.step = 3
    /\ Len(data.cards) > Len(last.payload.data.cards)
    /\ \E i \in DOMAIN last.payload.data.cards : HasId(data.cards, last.payload.data.cards[i].id)
    /\ last.payload.data.groups # <<>>

\* C7: a replace import yields exactly the payload's cards and groups, whatever the
\* prior state, and dispatched a second time it yields the same aggregate.
C7_ReplaceExact ==
    IsImport(FALSE) =>
        /\ data.cards = last.payload.data.cards
        /\ data.groups = last.payload.data.groups
        /\ last.step = 3 => data = prev

C7_Witness ==
    /\ IsImport(FALSE)
    /\ last.step = 3
    /\ data.cards # <<>>
    /\ data.groups # <<>>

\* C8 (as claimed): UPDATE_CARD / UPDATE_GROUP of an existing id leaves the entity's
\* createdAt as it was, whatever createdAt the payload carries.
C8_CreatedAtPreserved ==
    /\ last.type = "UPDATE_CARD" => CreatedAtKept(prev.cards, data.cards, last.payload.id)
    /\ last.type = "UPDATE_GROUP" => CreatedAtKept(prev.groups, data.groups, last.payload.id)

\* entries of `before` with the id `id` are stamped updatedAt = t in `after`
StampedNow(before, after, id, t) ==
    /\ DOMAIN after = DOMAIN before
    /\ \A i \in DOMAIN before : before[i].id = id => after[i].updatedAt = t

\* entries of `before` with the id `id` have no earlier updatedAt in `after`
NotEarlier(before, after, id) ==
    /\ DOMAIN after = DOMAIN before
    /\ \A i \in DOMAIN before : before[i].id = id => after[i].updatedAt >= before[i].updatedAt

\* as NotEarlier, for the entries whose updatedAt was not later than the clock t
NotEarlierUnlessFuture(before, after, id, t) ==
    /\ DOMAIN after = DOMAIN before
    /\ \A i \in DOMAIN before :
          (before[i].id = id /\ before[i].updatedAt <= t) =>
              after[i].updatedAt >= before[i].updatedAt

\* C9 (as claimed): an update of an existing entity sets updatedAt to the clock of
\* that reducer invocation, and never to a value earlier than it had.
C9_UpdatedAtMonotonic ==
    /\ last.type = "UPDATE_CARD" =>
          /\ StampedNow(prev.cards, data.cards, last.payload.id, last.at)
          /\ NotEarlier(prev.cards, data.cards, last.payload.id)
    /\ last.type = "UPDATE_GROUP" =>
          /\ StampedNow(prev.groups, data.groups, last.payload.id, last.at)
          /\ NotEarlier(prev.groups, data.groups, last.payload.id)

\* C9 (amended): an update of an existing entity sets updatedAt to the clock of that
\* reducer invocation; this is not earlier than the updatedAt it had unless that one
\* lay in the future of the clock (as a stamp taken from a Load or Import may).
C9_UpdatedAtIsNow ==
    /\ last.type = "UPDATE_CARD" =>
          /\ StampedNow(prev.cards, data.cards, last.payload.id, last.at)
          /\ NotEarlierUnlessFuture(prev.cards, data.cards, last.payload.id, last.at)
    /\ last.type = "UPDATE_GROUP" =>
          /\ StampedNow(prev.groups, data.groups, last.payload.id, last.at)
          /\ NotEarlierUnlessFuture(prev.groups, data.groups, last.payload.id, last.at)

C9_Witness ==
    /\ last.type = "UPDATE_CARD"
    /\ \E i \in DOMAIN prev.cards :
          /\ prev.cards[i].id = last.payload.id
          /\ prev.cards[i].updatedAt < last.at
          /\ last.payload.updatedAt # last.at
          /\ data.cards[i].updatedAt = last.at

\* C10: UPDATE_CARD and UPDATE_GROUP leave the sequence of card ids and the sequence
\* of group ids as they were.
C10_UpdateKeepsIds ==
    last.type \in {"UPDATE_CARD", "UPDATE_GROUP"} =>
        /\ Ids(data.cards) = Ids(prev.cards)
        /\ Ids(data.groups) = Ids(prev.groups)

C10_Witness ==
    /\ last.type = "UPDATE_CARD"
    /\ Len(prev.cards) = 2
    /\ HasId(prev.cards, last.payload.id)
    /\ data # prev
    /\ prev.groups # <<>>

\* C11 (as claimed): ids stay unique under every reducer action.  The empty aggregate
\* has no two cards and no two groups with one id; if the state before ADD_CARD,
\* ADD_GROUP, an update, a delete, an import in either mode or a reset has none,
\* the state after it has none either.
C11_IdsStayUnique ==
    (/\ last.step = 2
     /\ last.type \in {"ADD_CARD", "ADD_GROUP", "UPDATE_CARD", "UPDATE_GROUP", "DELETE_CARD",
                       "DELETE_GROUP", "IMPORT_DATA", "RESET_DATA"}
     /\ UniqueIds(prev.cards)
     /\ UniqueIds(prev.groups)) =>
        /\ UniqueIds(data.cards)
        /\ UniqueIds(data.groups)

\* C19 (as claimed): ADD_CARD yields the previous cards, unchanged and in order,
\* followed by one new card that equals the payload except that createdAt and
\* updatedAt are the clock of the invocation and that a payload without id gets a
\* generated id no card or group of the state has; the groups are unchanged.
C19_AddCardAppends ==
    last.type = "ADD_CARD" =>
        /\ data.groups = prev.groups
        /\ Len(data.cards) = Len(prev.cards) + 1
        /\ SubSeq(data.cards, 1, Len(prev.cards)) = prev.cards
        /\ LET new == data.cards[Len(data.cards)]
           IN  /\ new.createdAt = last.at
               /\ new.updatedAt = last.at
               /\ new.title = last.payload.title
               /\ new.groupIds = last.payload.groupIds
               /\ new.favorite = last.payload.favorite
               /\ IF last.payload.id # NoId
                  THEN new.id = last.payload.id
                  ELSE new.id # NoId /\ new.id \notin UsedIds(prev)

RECURSIVE Without(_, _)
\* the entries of `list`, in order, whose id is not `id`
Without(list, id) ==
    IF list = <<>> THEN <<>>
    ELSE IF Head(list).id = id THEN Without(Tail(list), id)
    ELSE <<Head(list)>> \o Without(Tail(list), id)

\* C20: DELETE_CARD(id) removes the card with that id and leaves every other card,
\* their order and all groups as they were; when no card has the id the aggregate
\* equals the one before.
C20_DeleteCardFrame ==
    last.type = "DELETE_CARD" =>
        /\ ~HasId(data.cards, last.payload)
        /\ data.cards = Without(prev.cards, last.payload)
        /\ data.groups = prev.groups
        /\ ~HasId(prev.cards, last.payload) => data = prev

C20_Witness ==
    /\ last.type = "DELETE_CARD"
    /\ prev.cards # <<>>
    /\ Head(prev.cards).id = last.payload
    /\ Len(data.cards) = 1
    /\ prev.groups # <<>>

\* C21 (as claimed): DELETE_GROUP(id) sets updatedAt to the clock of the invocation
\* on exactly the cards whose groupIds contained id; every other card is unchanged
\* in every field, and no card is added or removed.
C21_DeleteGroupStamps ==
    last.type = "DELETE_GROUP" =>
        /\ Len(data.cards) = Len(prev.cards)
        /\ \A i \in DOMAIN prev.cards :
              IF Includes(prev.cards[i].groupIds, last.payload)
              THEN /\ data.cards[i].id = prev.cards[i].id
                   /\ data.cards[i].updatedAt = last.at
              ELSE data.cards[i] = prev.cards[i]

\* the entries of `incoming` whose id no entry of `before` has, in their order
NewEntries(before, incoming) == SelectSeq(incoming, LAMBDA e : ~HasId(before, e.id))

\* the ids of `after` are those of `before`, position by position, followed by the
\* ids of the new entries of `incoming` in the order of `incoming`
MergeOrder(before, after, incoming) ==
    Ids(after) = Ids(before) \o Ids(NewEntries(before, incoming))

C23_ResetEmpties ==
    last.type = "RESET_DATA" => data = AppData(<<>>, <<>>)

C23_Witness ==
    /\ last.type = "RESET_DATA"
    /\ prev.cards # <<>>
    /\ prev.groups # <<>>
    /\ data = AppData(<<>>, <<>>)

\* C29: UPDATE_CARD / UPDATE_GROUP with an id no card / group of the state has
\* leaves the aggregate as it was: nothing is inserted and no stamp changes.
C29_UpdateIsNoUpsert ==
    /\ (last.type = "UPDATE_CARD" /\ ~HasId(prev.cards, last.payload.id)) => data = prev
    /\ (last.type = "UPDATE_GROUP" /\ ~HasId(prev.groups, last.payload.id)) => data = prev

C29_Witness ==
    /\ last.type = "UPDATE_CARD"
    /\ ~HasId(prev.cards, last.payload.id)
    /\ prev.cards # <<>>
    /\ prev.cards[1].updatedAt # last.at
    /\ data = prev

\* every groupIds entry of every card is the id of a group
Intact(state) ==
    \A i \in DOMAIN state.cards :
        \A k \in DOMAIN state.cards[i].groupIds :
            HasId(state.groups, state.cards[i].groupIds[k])

\* the groupIds of an ADD_CARD / UPDATE_CARD payload are ids of groups of the state
PayloadRefsPresent(state, action) ==
    action.type \in {"ADD_CARD", "UPDATE_CARD"} =>
        \A k \in DOMAIN action.payload.groupIds :
            HasId(state.groups, action.payload.groupIds[k])

\* C30: referential integrity is closed under the CRUD actions.  The empty aggregate
\* has no dangling groupIds entry, and an ADD_CARD, UPDATE_CARD, DELETE_CARD,
\* ADD_GROUP, UPDATE_GROUP or DELETE_GROUP whose card payload refers to groups of the
\* state only takes a state without dangling entries to one without.
C30_IntegrityClosed ==
    /\ Intact(initialState)
    /\ (/\ last.step = 2
        /\ last.type \in {"ADD_CARD", "UPDATE_CARD", "DELETE_CARD",
                          "ADD_GROUP", "UPDATE_GROUP", "DELETE_GROUP"}
        /\ Intact(prev)
        /\ PayloadRefsPresent(prev, last)) =>
            Intact(data)

C30_Witness ==
    /\ last.step = 2
    /\ last.type = "DELETE_GROUP"
    /\ Intact(prev)
    /\ \E i \in DOMAIN prev.cards : Includes(prev.cards[i].groupIds, last.payload)
    /\ Intact(data)

\* the import text is not JSON, or its value is not an object with a cards array
\* and a groups array
InvalidImportText(text) ==
    \/ ~text.parses
    \/ ~(/\ text.value.t = "object"
         /\ text.value.cards.t = "array"
         /\ text.value.groups.t = "array")

\* C17: an import of a text that is not JSON, or whose value is not an object with a
\* cards array and a groups array, dispatches no IMPORT_DATA: the aggregate after
\* the handler equals the aggregate before it.
C17_BadImportRejected ==
    (last.type = "HANDLE_IMPORT" /\ InvalidImportText(last.payload.text)) =>
        /\ ~last.payload.dispatched
        /\ data = prev

C17_Witness ==
    /\ last.type = "HANDLE_IMPORT"
    /\ last.payload.text.parses
    /\ last.payload.text.value.t = "object"
    /\ last.payload.text.value.cards.t = "array"
    /\ last.payload.text.value.cards.v # <<>>
    /\ last.payload.text.value.groups.t # "array"
    /\ last.payload.confirmed
    /\ ~last.payload.merge
    /\ prev.cards # last.payload.text.value.cards.v
    /\ data = prev

----------------------------------------------------------------------------
(* Durable store adapter: src/unnamed/part_005 *)

\* JSON.stringify(data): the raw text written under STORAGE_KEY
Stringify(d) == JsonText(JObject(ArrField(d.cards), ArrField(d.groups)))

\* blobs a previous run (or anything else) may have left under STORAGE_KEY
InitialBlobs ==
    { NoBlob,
      Garbage,
      JsonText(JNull),
      JsonText(JObject(ArrField(<<>>), NoField)),
      JsonText(JObject(StrField, ArrField(<<>>))),
      Stringify(AppData(<<Card("c2", "B", <<>>, FALSE, 0, 0)>>, <<>>)) }

\* a promise settled: resolved with a value, or rejected
Resolved(value) == [rejected |-> FALSE, value |-> value]
Rejected == [rejected |-> TRUE, value |-> AppData(<<>>, <<>>)]

\* mutant: the catch block rethrows
loadAppData_Rethrow(blob, readError) ==
    IF readError THEN Rejected
    ELSE IF blob.kind = "absent" \/ blob.blank THEN Resolved(AppData(<<>>, <<>>))
    ELSE IF JsonParse(blob).threw THEN Rejected
    ELSE LET parsed == JsonParse(blob).value
         IN  IF Falsy(parsed) \/ TypeOf(parsed) # "object"
                \/ ~IsArray(parsed.cards) \/ ~IsArray(parsed.groups)
             THEN Resolved(AppData(<<>>, <<>>))
             ELSE Resolved(AsAppData(parsed))

\* loadAppData(): readError is AsyncStorage.getItem rejecting; that and a throwing
\* JSON.parse end in the catch block, which returns the empty aggregate
loadAppData(blob, readError) ==
    IF readError THEN Resolved(AppData(<<>>, <<>>))
    ELSE IF blob.kind = "absent" \/ blob.blank THEN Resolved(AppData(<<>>, <<>>))
    ELSE IF JsonParse(blob).threw THEN Resolved(AppData(<<>>, <<>>))
    ELSE LET parsed == JsonParse(blob).value
         IN  IF Falsy(parsed) \/ TypeOf(parsed) # "object"
                \/ ~IsArray(parsed.cards) \/ ~IsArray(parsed.groups)
             THEN Resolved(AppData(<<>>, <<>>))
             ELSE Resolved(AsAppData(parsed))

\* mutant: no try/catch around setItem
saveAppData_NoCatch(writeOk) == [rejected |-> ~writeOk, written |-> writeOk]

\* saveAppData(data) once AsyncStorage.setItem has settled: the write landed or not,
\* and the promise resolves either way because the catch block swallows the error
saveAppData(writeOk) == [rejected |-> FALSE, written |-> writeOk]

----------------------------------------------------------------------------
(* Persistence scheduler: src/src/hooks/useDebouncedEffect.ts *)

\* mutant: a pending timeout keeps its due time and only takes the new state
Rearm_KeepDue(old, t, snap) ==
    IF old.set THEN [set |-> TRUE, due |-> old.due, snap |-> snap]
    ELSE [set |-> TRUE, due |-> t + SAVE_DEBOUNCE_DELAY_MS, snap |-> snap]

\* mutant: the pending timeout is not cleared when the state changes (a throttle)
Rearm_NoClear(old, t, snap) ==
    IF old.set THEN old ELSE [set |-> TRUE, due |-> t + SAVE_DEBOUNCE_DELAY_MS, snap |-> snap]

\* the effect of useDebouncedEffect re-running because `state` changed:
\* cleanup clearTimeout(old), then setTimeout(..., delay) closing over the new state
Rearm(old, t, snap) == [set |-> TRUE, due |-> t + SAVE_DEBOUNCE_DELAY_MS, snap |-> snap]

\* build B's effect body returns before saveAppData while either ref says "not loaded"
SkipsSave(v, initialLoad, hasLoaded) ==
    IF v = "A" THEN FALSE ELSE initialLoad \/ ~hasLoaded

----------------------------------------------------------------------------
(* Data provider: AppDataProvider of both builds *)

\* state after the first render and its effects: load() started, first timeout set
InitP ==
    /\ variant \in Variants
    /\ data = initialState
    /\ now = 0
    /\ prev = data
    /\ last = NoAction
    /\ loading = TRUE
    /\ loadError = FALSE
    /\ mounted = TRUE
    /\ isInitialLoadRef = TRUE
    /\ hasLoadedRef = FALSE
    /\ loadPc = "pending"
    /\ timer = Rearm(NoTimer, 0, initialState)
    /\ inflight = <<>>
    /\ storage \in InitialBlobs
    /\ saveLog = <<>>
    /\ savesAtLoad = -1
    /\ burstAt = -1
    /\ burstN = 0
    /\ burstOK = TRUE
    /\ lastChangeAt = 0
    /\ nDispatch = 0
    /\ loadLog = NoLoad
    /\ failedWrites = 0
    /\ saveRejected = FALSE

LoadDispatched == savesAtLoad >= 0

\* mutant: the finally block leaves loading as it is
FinallyLoading_Never(isMounted, flag) == flag

\* finally { if (mounted) setLoading(false) }
FinallyLoading(isMounted, flag) == IF isMounted THEN FALSE ELSE flag

\* `await loadAppData()` resumes.  Resolved: LOAD_DATA is dispatched unless unmounted
\* meanwhile.  Rejected: the catch block sets loadError and dispatches LOAD_DATA of
\* the empty aggregate (on an unmounted provider React drops both).  Finally:
\* setLoading(false) if mounted.
LoadSettles ==
    /\ loadPc = "pending"
    /\ loadPc' = "done"
    /\ \E readError \in BOOLEAN :
         LET r == loadAppData(storage, readError)
         IN  /\ loadLog' = [settled |-> TRUE, blob |-> storage, readError |-> readError,
                            rejected |-> r.rejected, value |-> r.value]
             /\ IF mounted
                THEN /\ Apply(Action("LOAD_DATA", IF r.rejected THEN initialState ELSE r.value))
                     /\ loadError' = (loadError \/ r.rejected)
                     /\ timer' = Rearm(timer, now, data')
                     /\ loading' = FinallyLoading(mounted, loading)
                     /\ hasLoadedRef' = (IF variant = "B" THEN TRUE ELSE hasLoadedRef)
                     /\ isInitialLoadRef' = (IF variant = "B" THEN FALSE ELSE isInitialLoadRef)
                     /\ savesAtLoad' = Len(saveLog)
                     /\ lastChangeAt' = now
                ELSE /\ UNCHANGED <<variant, data, now, prev, last>>
                     /\ loading' = FinallyLoading(mounted, loading)
                     /\ UNCHANGED <<timer, loadError, hasLoadedRef, isInitialLoadRef,
                                    savesAtLoad, lastChangeAt>>
    /\ UNCHANGED <<mounted, inflight, storage, saveLog, burstAt, burstN, burstOK, nDispatch,
                   failedWrites, saveRejected>>

\* a screen calls dispatch(action): the reducer runs, the provider re-renders with a
\* new state object and the debounced effect re-runs (cleanup, then a new timeout);
\* taken as one step, as no timeout that is due runs in between
UserDispatch(action) ==
    /\ mounted
    /\ nDispatch < MaxDispatch
    /\ Apply(action)
    /\ timer' = Rearm(timer, now, data')
    /\ nDispatch' = nDispatch + 1
    /\ lastChangeAt' = now
    /\ IF LoadDispatched
       THEN /\ burstN' = burstN + 1
            /\ burstAt' = IF burstN = 0 THEN Len(saveLog) ELSE burstAt
            /\ burstOK' = IF burstN = 0 THEN TRUE
                          ELSE burstOK /\ now - lastChangeAt < SAVE_DEBOUNCE_DELAY_MS
       ELSE UNCHANGED <<burstN, burstAt, burstOK>>
    /\ UNCHANGED <<loading, loadError, mounted, isInitialLoadRef, hasLoadedRef, loadPc,
                   inflight, storage, saveLog, savesAtLoad, loadLog, failedWrites,
                   saveRejected>>

UserAddCard ==
    UserDispatch(Action("ADD_CARD", Card("c1", "A", <<>>, FALSE, 0, 0)))

UserDeleteCard ==
    UserDispatch(Action("DELETE_CARD", "c1"))

\* mutant: the callback saves the groups of its closure's state without the cards
TimerFires_GroupsOnly ==
    /\ timer.set
    /\ now >= timer.due
    /\ Len(saveLog) < MaxSaves
    /\ timer' = NoTimer
    /\ IF SkipsSave(variant, isInitialLoadRef, hasLoadedRef)
       THEN UNCHANGED <<inflight, saveLog>>
       ELSE /\ inflight' = Append(inflight, Stringify(AppData(<<>>, timer.snap.groups)))
            /\ saveLog' = Append(saveLog, AppData(<<>>, timer.snap.groups))
    /\ UNCHANGED <<variant, data, now, prev, last>>
    /\ UNCHANGED <<loading, loadError, mounted, isInitialLoadRef, hasLoadedRef, loadPc,
                   storage, savesAtLoad, burstAt, burstN, burstOK, lastChangeAt, nDispatch,
                   loadLog, failedWrites, saveRejected>>

\* the timeout runs: effect() calls saveAppData(state) with the state of its closure;
\* saveAppData stringifies and starts AsyncStorage.setItem
TimerFires ==
    /\ timer.set
    /\ now >= timer.due
    /\ Len(saveLog) < MaxSaves
    /\ timer' = NoTimer
    /\ IF SkipsSave(variant, isInitialLoadRef, hasLoadedRef)
       THEN UNCHANGED <<inflight, saveLog>>
       ELSE /\ inflight' = Append(inflight, Stringify(timer.snap))
            /\ saveLog' = Append(saveLog, timer.snap)
    /\ UNCHANGED <<variant, data, now, prev, last>>
    /\ UNCHANGED <<loading, loadError, mounted, isInitialLoadRef, hasLoadedRef, loadPc,
                   storage, savesAtLoad, burstAt, burstN, burstOK, lastChangeAt, nDispatch,
                   loadLog, failedWrites, saveRejected>>

\* mutant: a failed write schedules a save of the current state again
SaveSettles_Retry ==
    /\ \E i \in DOMAIN inflight, ok \in BOOLEAN :
          LET r == saveAppData(ok)
          IN  /\ storage' = IF r.written THEN inflight[i] ELSE storage
              /\ inflight' = SubSeq(inflight, 1, i - 1) \o SubSeq(inflight, i + 1, Len(inflight))
              /\ failedWrites' = IF ok THEN failedWrites ELSE failedWrites + 1
              /\ saveRejected' = (saveRejected \/ r.rejected)
              /\ timer' = IF ok THEN timer ELSE Rearm(timer, now, data)
    /\ UNCHANGED <<variant, data, now, prev, last>>
    /\ UNCHANGED <<loading, loadError, mounted, isInitialLoadRef, hasLoadedRef, loadPc,
                   saveLog, savesAtLoad, burstAt, burstN, burstOK, lastChangeAt,
                   nDispatch, loadLog>>

\* one AsyncStorage.setItem settles: the write lands, or it rejects and saveAppData's
\* catch swallows the error.  The storage API fixes no completion order.
SaveSettles ==
    /\ \E i \in DOMAIN inflight, ok \in BOOLEAN :
          LET r == saveAppData(ok)
          IN  /\ storage' = IF r.written THEN inflight[i] ELSE storage
              /\ inflight' = SubSeq(inflight, 1, i - 1) \o SubSeq(inflight, i + 1, Len(inflight))
              /\ failedWrites' = IF ok THEN failedWrites ELSE failedWrites + 1
              /\ saveRejected' = (saveRejected \/ r.rejected)
    /\ UNCHANGED <<variant, data, now, prev, last>>
    /\ UNCHANGED <<loading, loadError, mounted, isInitialLoadRef, hasLoadedRef, loadPc,
                   timer, saveLog, savesAtLoad, burstAt, burstN, burstOK, lastChangeAt,
                   nDispatch, loadLog>>

\* mutant: the cleanup of the debounced effect does not clear the timeout
Unmount_KeepTimer ==
    /\ mounted
    /\ mounted' = FALSE
    /\ UNCHANGED <<variant, data, now, prev, last>>
    /\ UNCHANGED <<loading, loadError, isInitialLoadRef, hasLoadedRef, loadPc, inflight,
                   storage, saveLog, savesAtLoad, burstAt, burstN, burstOK, lastChangeAt,
                   nDispatch, loadLog, failedWrites, saveRejected, timer>>

\* the provider unmounts: the effects' cleanups run (mounted = false, clearTimeout)
Unmount ==
    /\ mounted
    /\ mounted' = FALSE
    /\ timer' = NoTimer
    /\ UNCHANGED <<variant, data, now, prev, last>>
    /\ UNCHANGED <<loading, loadError, isInitialLoadRef, hasLoadedRef, loadPc, inflight,
                   storage, saveLog, savesAtLoad, burstAt, burstN, burstOK, lastChangeAt,
                   nDispatch, loadLog, failedWrites, saveRejected>>

Tick ==
    /\ now + TickMs <= MaxTicks * TickMs
    /\ now' = now + TickMs
    /\ UNCHANGED <<variant, data, prev, last>>
    /\ UNCHANGED pvars

Next ==
    \/ LoadSettles
    \/ UserAddCard
    \/ UserDeleteCard
    \/ TimerFires
    \/ SaveSettles
    \/ Unmount
    \/ Tick

Spec == InitP /\ [][Next]_vars

----------------------------------------------------------------------------
(* Properties of the scheduler and provider, checked under Spec *)

\* C2 (as claimed): no save is started before the initial LOAD_DATA is dispatched.
C2_NoSaveBeforeLoad ==
    ~LoadDispatched => saveLog = <<>>

\* C3 (as claimed): while no user action has been dispatched after the initial
\* LOAD_DATA, no save is started after that dispatch.
C3_LoadSnapshotNotSaved ==
    (LoadDispatched /\ burstN = 0) => Len(saveLog) = savesAtLoad

\* C4: N >= 1 user changes after the load, each less than the delay after the one
\* before: no save while the last timeout is pending, and once it has run exactly
\* one save, of the snapshot the last change produced.
C4_DebounceCoalesces ==
    (LoadDispatched /\ burstN >= 1 /\ burstOK /\ mounted) =>
        IF timer.set
        THEN Len(saveLog) = burstAt
        ELSE /\ Len(saveLog) = burstAt + 1
             /\ saveLog[Len(saveLog)] = data

C4_Witness ==
    /\ LoadDispatched
    /\ burstN >= 2
    /\ burstOK
    /\ mounted
    /\ ~timer.set
    /\ lastChangeAt > 0
    /\ Len(saveLog) = burstAt + 1
    /\ saveLog[Len(saveLog)] = data
    /\ data.cards # <<>>

\* what loadAppData() read, classified by the blob itself
NothingStored(log) == ~log.readError /\ log.blob.kind = "absent"
NotJson(log) == ~log.readError /\ log.blob.kind = "text" /\ ~log.blob.parses
WrongShape(log) ==
    /\ ~log.readError
    /\ log.blob.kind = "text"
    /\ log.blob.parses
    /\ ~(/\ log.blob.value.t = "object"
         /\ log.blob.value.cards.t = "array"
         /\ log.blob.value.groups.t = "array")
LoadFailed(log) == log.readError \/ NotJson(log) \/ WrongShape(log)

\* C12: loadAppData() never rejects, and it resolves to the empty aggregate when no
\* blob is stored, when the blob is not JSON, when the parsed value is not an object
\* with a cards array and a groups array, and when the storage read fails.
C12_LoadNeverRejects ==
    loadLog.settled =>
        /\ ~loadLog.rejected
        /\ (NothingStored(loadLog) \/ LoadFailed(loadLog)) =>
              loadLog.value = AppData(<<>>, <<>>)

C12_Witness ==
    /\ loadLog.settled
    /\ WrongShape(loadLog)
    /\ loadLog.blob.value.t = "object"
    /\ ~loadLog.rejected
    /\ loadLog.value = AppData(<<>>, <<>>)

\* C13 (as claimed): when the initial load fell back to the empty aggregate because
\* the read failed, the blob was no JSON or the shape check failed, loadError is set
\* once loading has finished.
C13_LoadErrorOnFailure ==
    (loadLog.settled /\ LoadFailed(loadLog) /\ ~loading) => loadError

C15_OneSaveInFlight ==
    Len(inflight) <= 1

\* C16 (as claimed): the initial LOAD_DATA is the first action the reducer processes,
\* so the state it replaces is the initial empty aggregate.
C16_LoadIsFirstAction ==
    last.type = "LOAD_DATA" =>
        /\ last.step = 1
        /\ prev = initialState

\* C18 (as claimed), as the final state of the run it describes: after the initial
\* load and at least one user action, with the provider mounted and no write failed,
\* once no timeout is pending and no write is in flight the stored blob is the
\* serialization of the current aggregate.
C18_StorageCatchesUp ==
    (/\ LoadDispatched
     /\ burstN >= 1
     /\ mounted
     /\ failedWrites = 0
     /\ ~timer.set
     /\ inflight = <<>>) =>
        storage = Stringify(data)

\* C24: the scheduler is a debounce.  A save is started only when at least the delay
\* has passed since the most recent state change, however many changes came before
\* and however long they went on; every change replaces the pending timeout, which
\* is due one delay after that change.
C24_DebounceNotThrottle ==
    [][/\ Len(saveLog') > Len(saveLog) => now - lastChangeAt >= SAVE_DEBOUNCE_DELAY_MS
       /\ lastChangeAt' # lastChangeAt =>
             (timer'.set /\ timer'.due = lastChangeAt' + SAVE_DEBOUNCE_DELAY_MS)]_vars

C24_Witness ==
    /\ LoadDispatched
    /\ nDispatch >= 2
    /\ ~burstOK
    /\ ~timer.set
    /\ Len(saveLog) >= 1
    /\ now = lastChangeAt + SAVE_DEBOUNCE_DELAY_MS
    /\ saveLog[Len(saveLog)] = data

\* C25: once the provider is unmounted no save is started and no action is
\* dispatched: the timeout pending at the unmount is cleared, so its snapshot is not
\* written, and a load that settles afterwards dispatches no LOAD_DATA.
C25_NothingAfterTeardown ==
    [][/\ ~mounted' => ~timer'.set
       /\ ~mounted => (saveLog' = saveLog /\ data' = data /\ last' = last)]_vars

C25_Witness ==
    /\ ~mounted
    /\ loadPc = "done"
    /\ ~LoadDispatched
    /\ nDispatch >= 1
    /\ data.cards # <<>>
    /\ ~timer.set
    /\ now >= lastChangeAt + SAVE_DEBOUNCE_DELAY_MS
    /\ \A i \in DOMAIN saveLog : saveLog[i] # data

\* C26: every value passed to saveAppData is the whole state as published when the
\* call is made, the output of the last reducer step: the pending timeout always
\* closes over the current state, and the step that starts a save appends exactly
\* that state to the saves made so far.  The saves thus follow the order in which
\* their snapshots were published.
C26_SavesWholeSnapshots ==
    /\ []((timer.set /\ mounted) => timer.snap = data)
    /\ [][Len(saveLog') > Len(saveLog) =>
             /\ saveLog' = Append(saveLog, data)
             /\ inflight' = Append(inflight, Stringify(data))
             /\ data' = data]_vars

C26_Witness ==
    /\ LoadDispatched
    /\ Len(saveLog) = 2
    /\ saveLog[1] = loadLog.value
    /\ saveLog[1].cards # <<>>
    /\ saveLog[2] = data
    /\ saveLog[2] # saveLog[1]

\* C27: a failed write schedules nothing: the step in which it fails sets no timeout
\* and starts no save.  A state change after it sets the timeout with the whole
\* current state, and when the write of the newest save lands with no change
\* pending, the stored blob is the serialization of the current state.
C27_NoRetryNextSaveCatchesUp ==
    [][/\ failedWrites' > failedWrites =>
             (timer' = timer /\ saveLog' = saveLog /\ storage' = storage)
       /\ (failedWrites > 0 /\ last' # last) =>
             (timer'.set /\ timer'.snap = data')
       /\ (/\ failedWrites > 0
           /\ failedWrites' = failedWrites
           /\ Len(inflight') < Len(inflight)
           /\ mounted
           /\ ~timer.set
           /\ storage' = Stringify(saveLog[Len(saveLog)])) =>
             storage' = Stringify(data)]_vars

C27_Witness ==
    /\ failedWrites = 1
    /\ mounted
    /\ inflight = <<>>
    /\ ~timer.set
    /\ Len(saveLog) = 2
    /\ saveLog[1] # saveLog[2]
    /\ data.cards # <<>>
    /\ storage = Stringify(data)

\* C28: loading is true until the initial load settles, is false once it has settled
\* on a mounted provider, whether it read a well-formed blob or fell back, and
\* never becomes true again; loadError, once set, is never cleared.
C28_FlagLifecycle ==
    /\ [](loadPc = "pending" => loading)
    /\ []((loadPc = "done" /\ mounted) => ~loading)
    /\ [][(~loading => ~loading') /\ (loadError => loadError')]_vars

C28_Witness ==
    /\ loadPc = "done"
    /\ LoadFailed(loadLog)
    /\ ~loading
    /\ nDispatch >= 1
    /\ now > 0

====
